---- MODULE Spec2Model ----
(***************************************************************************)
(* Model of src/beatmaps.rs: the nom decoders of the osu.db beatmap        *)
(* listing.  A byte buffer is a sequence of integers 0..255.  A decoder    *)
(* takes the unconsumed input and returns an IResult:                      *)
(*   Ok((rest, value))                 [ok |-> TRUE,  rest, value]         *)
(*   Err(Err::Error(Error{input,code})) [ok |-> FALSE, input, code]        *)
(* u16/u32 values are integers; f32/f64 values are their IEEE-754 bit      *)
(* pattern, written as bytes most significant first.                       *)
(***************************************************************************)
EXTENDS Integers, Sequences, FiniteSets, TLC

VARIABLES
    input,     \* the buffer the function was called with
    version,   \* beatmap_listing: the version read from the header
    rest,      \* the cursor: the unconsumed input
    pc,        \* position in the body of the function being run
    acc,       \* beatmap_listing: the header fields bound so far
    cinput,    \* count(beatmap_entry(version), n): its input `i`
    entries,   \* count(beatmap_entry(version), n): the Vec `res`
    efield,    \* beatmap_entry: index of the next field, 0 outside an entry
    eacc,      \* beatmap_entry: the fields bound so far
    offs,      \* history: per entry begun, each bound field's <<start, end>>
    result,    \* the IResult each function that was called returned, by name
    raised     \* history: the error as the failing field decoder produced it

vars == <<input, version, rest, pc, acc, cinput, entries, efield, eacc,
          offs, result, raised>>

----------------------------------------------------------------------------
(* IResult and slices *)

Ok(r, v) == [ok |-> TRUE, rest |-> r, value |-> v]

Err(i, c) == [ok |-> FALSE, input |-> i, code |-> c]

Take(i, n) == SubSeq(i, 1, n)

Drop(i, n) == SubSeq(i, n + 1, Len(i))

None == <<>>

Some(v) == <<v>>

NoFields == [n \in {} |-> 0]

NoError == [none |-> TRUE]

----------------------------------------------------------------------------
(* nom primitives (complete) *)

u8(i) == IF Len(i) < 1 THEN Err(i, "Eof") ELSE Ok(Drop(i, 1), i[1])

le_u16(i) ==
    IF Len(i) < 2 THEN Err(i, "Eof") ELSE Ok(Drop(i, 2), i[1] + 256 * i[2])

le_u32(i) ==
    IF Len(i) < 4 THEN Err(i, "Eof")
    ELSE Ok(Drop(i, 4), i[1] + 256 * i[2] + 65536 * i[3] + 16777216 * i[4])

le_f32(i) ==
    IF Len(i) < 4 THEN Err(i, "Eof")
    ELSE Ok(Drop(i, 4), <<i[4], i[3], i[2], i[1]>>)

le_f64(i) ==
    IF Len(i) < 8 THEN Err(i, "Eof")
    ELSE Ok(Drop(i, 8), <<i[8], i[7], i[6], i[5], i[4], i[3], i[2], i[1]>>)

tag(t, i) ==
    IF Len(i) >= Len(t) /\ Take(i, Len(t)) = t
    THEN Ok(Drop(i, Len(t)), t)
    ELSE Err(i, "Tag")

(* preceded(first, second): the result of first is dropped *)
preceded(first(_), second(_), i) ==
    LET a == first(i) IN IF a.ok THEN second(a.rest) ELSE a

(* cond(b, f): Some(value) when b, None and nothing consumed otherwise *)
cond(b, f(_), i) ==
    IF b
    THEN LET r == f(i) IN IF r.ok THEN Ok(r.rest, Some(r.value)) ELSE r
    ELSE Ok(i, None)

ErrorAppend_Wrap(i, kind, other) == Err(i, kind)

(* Error::append(input, kind, other): nom::error::Error keeps `other` *)
ErrorAppend(i, kind, other) == other

VecPush_Front(res, o) == <<o>> \o res

(* res.push(o) *)
VecPush(res, o) == Append(res, o)

(* count(f, n)(i): n applications of f, the first Err::Error ends it *)
RECURSIVE CountLoop(_, _, _, _, _)
CountLoop(f(_), todo, i, cur, res) ==
    IF todo = 0 THEN Ok(cur, res)
    ELSE LET r == f(cur) IN
         IF r.ok THEN CountLoop(f, todo - 1, i, r.rest, VecPush(res, r.value))
         ELSE ErrorAppend(i, "Count", r)

count(f(_), n, i) == CountLoop(f, n, i, i, <<>>)

(* `b as f32`: the IEEE-754 single of the integer b in 0..255 *)
Log2(b) == CHOOSE e \in 0..7 : 2 ^ e <= b /\ b < 2 ^ (e + 1)

U8AsF32(b) ==
    IF b = 0 THEN <<0, 0, 0, 0>>
    ELSE LET e == Log2(b)
             bits == (127 + e) * 8388608 + (b - 2 ^ e) * 2 ^ (23 - e)
         IN <<bits \div 16777216, (bits \div 65536) % 256,
              (bits \div 256) % 256, bits % 256>>

(* u32::to_le_bytes, as the tests build their buffers *)
to_le_bytes(n) ==
    <<n % 256, (n \div 256) % 256, (n \div 65536) % 256, n \div 16777216>>

----------------------------------------------------------------------------
(* crate::common *)

StringMarker == 11

boolean(i) ==
    LET r == u8(i) IN IF r.ok THEN Ok(r.rest, r.value # 0) ELSE r

windows_datetime(i) ==
    IF Len(i) < 8 THEN Err(i, "Eof")
    ELSE Ok(Drop(i, 8),
            [ticks |-> <<i[8], i[7], i[6], i[5], i[4], i[3], i[2], i[1]>>])

(* 7 bits per byte, least significant chunk first, high bit continues *)
RECURSIVE uleb128(_, _, _)
uleb128(i, shift, total) ==
    IF Len(i) < 1 THEN Err(i, "Eof")
    ELSE LET b == i[1]
             v == total + (b % 128) * 2 ^ shift
         IN IF b >= 128 THEN uleb128(Drop(i, 1), shift + 7, v)
            ELSE Ok(Drop(i, 1), v)

osu_string(i) ==
    LET flag == u8(i) IN
    IF ~flag.ok THEN flag
    ELSE IF flag.value # StringMarker THEN Ok(flag.rest, None)
    ELSE LET n == uleb128(flag.rest, 0, 0) IN
         IF ~n.ok THEN n
         ELSE IF Len(n.rest) < n.value THEN Err(n.rest, "Eof")
         ELSE Ok(Drop(n.rest, n.value), Some(Take(n.rest, n.value)))

----------------------------------------------------------------------------
(* Enum decoders *)

ranked_status_RestInError(i) ==
    LET r == u8(i) IN
    IF ~r.ok THEN r
    ELSE CASE r.value = 0 -> Ok(r.rest, "Unknown")
           [] r.value = 1 -> Ok(r.rest, "Unsubmitted")
           [] r.value = 2 -> Ok(r.rest, "Pending")
           [] r.value = 4 -> Ok(r.rest, "Ranked")
           [] r.value = 5 -> Ok(r.rest, "Approved")
           [] r.value = 6 -> Ok(r.rest, "Qualified")
           [] r.value = 7 -> Ok(r.rest, "Loved")
           [] OTHER -> Err(r.rest, "Switch")

ranked_status_AcceptsThree(i) ==
    LET r == u8(i) IN
    IF ~r.ok THEN r
    ELSE CASE r.value = 0 -> Ok(r.rest, "Unknown")
           [] r.value = 1 -> Ok(r.rest, "Unsubmitted")
           [] r.value = 2 -> Ok(r.rest, "Pending")
           [] r.value = 3 -> Ok(r.rest, "Ranked")
           [] r.value = 4 -> Ok(r.rest, "Ranked")
           [] r.value = 5 -> Ok(r.rest, "Approved")
           [] r.value = 6 -> Ok(r.rest, "Qualified")
           [] r.value = 7 -> Ok(r.rest, "Loved")
           [] OTHER -> Err(i, "Switch")

ranked_status(i) ==
    LET r == u8(i) IN
    IF ~r.ok THEN r
    ELSE CASE r.value = 0 -> Ok(r.rest, "Unknown")
           [] r.value = 1 -> Ok(r.rest, "Unsubmitted")
           [] r.value = 2 -> Ok(r.rest, "Pending")
           [] r.value = 4 -> Ok(r.rest, "Ranked")
           [] r.value = 5 -> Ok(r.rest, "Approved")
           [] r.value = 6 -> Ok(r.rest, "Qualified")
           [] r.value = 7 -> Ok(r.rest, "Loved")
           [] OTHER -> Err(i, "Switch")

gameplay_mode(i) ==
    LET r == u8(i) IN
    IF ~r.ok THEN r
    ELSE CASE r.value = 0 -> Ok(r.rest, "Standard")
           [] r.value = 1 -> Ok(r.rest, "Taiko")
           [] r.value = 2 -> Ok(r.rest, "Catch")
           [] r.value = 3 -> Ok(r.rest, "Mania")
           [] OTHER -> Err(i, "Switch")

----------------------------------------------------------------------------
(* Composite decoders *)

tag08(i) == tag(<<8>>, i)

tag0d(i) == tag(<<13>>, i)

int_double_pair_NoMiddleTag(i) ==
    LET a == preceded(tag08, le_u32, i) IN
    IF ~a.ok THEN a
    ELSE LET b == le_f64(a.rest) IN
         IF ~b.ok THEN b ELSE Ok(b.rest, <<a.value, b.value>>)

int_double_pair(i) ==
    LET a == preceded(tag08, le_u32, i) IN
    IF ~a.ok THEN a
    ELSE LET b == preceded(tag0d, le_f64, a.rest) IN
         IF ~b.ok THEN b ELSE Ok(b.rest, <<a.value, b.value>>)

(* map(tuple((le_f64, le_f64, boolean)), ...) *)
timing_point(i) ==
    LET a == le_f64(i) IN
    IF ~a.ok THEN a
    ELSE LET b == le_f64(a.rest) IN
         IF ~b.ok THEN b
         ELSE LET c == boolean(b.rest) IN
              IF ~c.ok THEN c
              ELSE Ok(c.rest, [bpm |-> a.value, song_offset |-> b.value,
                               inherited |-> c.value])

star_ratings_OneFewer(i) ==
    LET total == le_u32(i) IN
    IF ~total.ok THEN total
    ELSE count(int_double_pair, IF total.value = 0 THEN 0 ELSE total.value - 1,
               total.rest)

star_ratings(i) ==
    LET total == le_u32(i) IN
    IF ~total.ok THEN total
    ELSE count(int_double_pair, total.value, total.rest)

(* beatmap_entry: `timing_point_count` then `timing_points` *)
timing_points(i) ==
    LET n == le_u32(i) IN
    IF ~n.ok THEN n ELSE count(timing_point, n.value, n.rest)

----------------------------------------------------------------------------
(* beatmap_entry(version): the fields in the order the body binds them,     *)
(* each with the decoder it is bound from                                   *)

Field(n, p) == [name |-> n, p |-> p]

EntryHead_EightStrings ==
    << Field("size", "size"),
       Field("artist_name", "osu_string"),
       Field("song_title", "osu_string"),
       Field("song_title_unicode", "osu_string"),
       Field("creator_name", "osu_string"),
       Field("difficulty", "osu_string"),
       Field("audio_filename", "osu_string"),
       Field("md5", "osu_string"),
       Field("beatmap_filename", "osu_string"),
       Field("ranked_status", "ranked_status") >>

EntryHead ==
    << Field("size", "size"),
       Field("artist_name", "osu_string"),
       Field("artist_name_unicode", "osu_string"),
       Field("song_title", "osu_string"),
       Field("song_title_unicode", "osu_string"),
       Field("creator_name", "osu_string"),
       Field("difficulty", "osu_string"),
       Field("audio_filename", "osu_string"),
       Field("md5", "osu_string"),
       Field("beatmap_filename", "osu_string"),
       Field("ranked_status", "ranked_status") >>

EntryBody ==
    << Field("hitcircle_count", "le_u16"),
       Field("slider_count", "le_u16"),
       Field("spinner_count", "le_u16"),
       Field("last_modification_time", "windows_datetime"),
       Field("approach_rate", "parse_difficulty"),
       Field("circle_size", "parse_difficulty"),
       Field("hp_drain", "parse_difficulty"),
       Field("overall_difficulty", "parse_difficulty"),
       Field("slider_velocity", "le_f64"),
       Field("star_ratings_std", "star_ratings"),
       Field("star_ratings_taiko", "star_ratings"),
       Field("star_ratings_ctb", "star_ratings"),
       Field("star_ratings_mania", "star_ratings"),
       Field("drain_time", "le_u32"),
       Field("total_time", "le_u32"),
       Field("audio_preview_time", "le_u32"),
       Field("timing_point_count", "le_u32"),
       Field("timing_points", "count_timing_point"),
       Field("difficulty_id", "le_u32"),
       Field("beatmap_id", "le_u32"),
       Field("thread_id", "le_u32"),
       Field("grade_std", "u8"),
       Field("grade_taiko", "u8"),
       Field("grade_catch", "u8"),
       Field("grade_mania", "u8"),
       Field("local_offset", "le_u16"),
       Field("stack_leniency", "le_f32"),
       Field("gameplay_mode", "gameplay_mode"),
       Field("song_source", "osu_string"),
       Field("song_tags", "osu_string"),
       Field("online_offset", "le_u16"),
       Field("font", "osu_string"),
       Field("is_unplayed", "boolean"),
       Field("last_played", "windows_datetime"),
       Field("is_osz2", "boolean"),
       Field("folder_name", "osu_string"),
       Field("last_checked_online", "windows_datetime") >>

EntryTail_ThreeBooleans ==
    << Field("ignore_beatmap_hitsounds", "boolean"),
       Field("ignore_beatmap_skin", "boolean"),
       Field("disable_storyboard", "boolean"),
       Field("_unused_f32", "cond_le_f32"),
       Field("_unused_u32", "le_u32"),
       Field("mania_scroll_speed", "u8") >>

EntryTail ==
    << Field("ignore_beatmap_hitsounds", "boolean"),
       Field("ignore_beatmap_skin", "boolean"),
       Field("disable_storyboard", "boolean"),
       Field("disable_video", "boolean"),
       Field("_unused_f32", "cond_le_f32"),
       Field("_unused_u32", "le_u32"),
       Field("mania_scroll_speed", "u8") >>

EntryFields == EntryHead \o EntryBody \o EntryTail

parse_difficulty_Le(v, i) ==
    IF v <= 20140609
    THEN LET r == u8(i) IN IF r.ok THEN Ok(r.rest, U8AsF32(r.value)) ELSE r
    ELSE le_f32(i)

(* map(u8, |b| b as f32) before 20140609, le_f32 from it on *)
parse_difficulty(v, i) ==
    IF v < 20140609
    THEN LET r == u8(i) IN IF r.ok THEN Ok(r.rest, U8AsF32(r.value)) ELSE r
    ELSE le_f32(i)

size_field_Le(v, i) ==
    IF v <= 20191106
    THEN LET r == le_u32(i) IN IF r.ok THEN Ok(r.rest, Some(r.value)) ELSE r
    ELSE Ok(i, None)

(* size: map(le_u32, Some) before 20191106, (input, None) from it on *)
size_field(v, i) ==
    IF v < 20191106
    THEN LET r == le_u32(i) IN IF r.ok THEN Ok(r.rest, Some(r.value)) ELSE r
    ELSE Ok(i, None)

(* cond(version < 20140609, le_f32) *)
unused_f32(v, i) == cond(v < 20140609, le_f32, i)

(* the decoder of one `let (rest, x) = ...(rest)?;`; bound: the fields so far *)
FieldDecoder(p, v, bound, i) ==
    CASE p = "size" -> size_field(v, i)
      [] p = "osu_string" -> osu_string(i)
      [] p = "ranked_status" -> ranked_status(i)
      [] p = "gameplay_mode" -> gameplay_mode(i)
      [] p = "parse_difficulty" -> parse_difficulty(v, i)
      [] p = "star_ratings" -> star_ratings(i)
      [] p = "count_timing_point" ->
            count(timing_point, bound["timing_point_count"], i)
      [] p = "cond_le_f32" -> unused_f32(v, i)
      [] p = "windows_datetime" -> windows_datetime(i)
      [] p = "boolean" -> boolean(i)
      [] p = "u8" -> u8(i)
      [] p = "le_u16" -> le_u16(i)
      [] p = "le_u32" -> le_u32(i)
      [] p = "le_f32" -> le_f32(i)
      [] p = "le_f64" -> le_f64(i)

(* BeatmapEntry { .. }: the bound fields but the count and the two `_` *)
NotInStruct == {"timing_point_count", "_unused_f32", "_unused_u32"}

BeatmapEntry(bound) == [n \in DOMAIN bound \ NotInStruct |-> bound[n]]

(* beatmap_entry(version)(input): each field in turn, `?` returns the first *)
(* error as it is                                                           *)
RECURSIVE EntryFrom(_, _, _, _)
EntryFrom(v, k, bound, i) ==
    IF k > Len(EntryFields) THEN Ok(i, BeatmapEntry(bound))
    ELSE LET f == EntryFields[k]
             r == FieldDecoder(f.p, v, bound, i)
         IN IF r.ok
            THEN EntryFrom(v, k + 1, bound @@ (f.name :> r.value), r.rest)
            ELSE r

beatmap_entry(v, i) == EntryFrom(v, 1, NoFields, i)

----------------------------------------------------------------------------
(* Input buffers *)

MaxTail == 1

MaxExtra == 1

MaxCount == 2

SeqsUpTo(S, n) == UNION {[1..k -> S] : k \in 0..n}

Prefixes(b) == {Take(b, k) : k \in 0..Len(b)}

RECURSIVE Concat(_)
Concat(ss) == IF ss = <<>> THEN <<>> ELSE Head(ss) \o Concat(Tail(ss))

Byte == 0..255

(* one byte to decode, then a short tail *)
EnumInputs ==
    {<<>>} \cup {<<b>> \o t : b \in Byte, t \in SeqsUpTo({0, 10}, MaxTail)}

(* 1234.56, 1.2 and 2.3 as f64::to_le_bytes gives them *)
DoubleSamples ==
    {<<10, 215, 163, 112, 61, 74, 147, 64>>,
     <<51, 51, 51, 51, 51, 51, 243, 63>>,
     <<102, 102, 102, 102, 102, 102, 2, 64>>}

(* a pair with either marker right, wrong or missing, cut at every length *)
PairInputs ==
    UNION {Prefixes(front \o to_le_bytes(n) \o mid \o d \o extra) :
             front \in {<<8>>, <<>>, <<13>>},
             n \in {100, 0},
             mid \in {<<13>>, <<>>, <<8>>},
             d \in DoubleSamples,
             extra \in SeqsUpTo({1, 8}, MaxExtra) \cup {<<1, 2, 3>>}}

PairSamples ==
    {<<8, 0, 0, 0, 0, 13, 51, 51, 51, 51, 51, 51, 243, 63>>,
     <<8, 1, 0, 0, 0, 13, 102, 102, 102, 102, 102, 102, 2, 64>>,
     <<8, 1, 0, 0, 0, 8, 102, 102, 102, 102, 102, 102, 2, 64>>}

(* 180.0, 250.0, inherited; and 250.0, 180.0, not inherited *)
TimingSamples ==
    {<<0, 0, 0, 0, 0, 128, 102, 64, 0, 0, 0, 0, 0, 64, 111, 64, 1>>,
     <<0, 0, 0, 0, 0, 64, 111, 64, 0, 0, 0, 0, 0, 128, 102, 64, 0>>}

(* a declared count, then as many or fewer or more elements, cut anywhere *)
ListInputs(samples) ==
    UNION {Prefixes(to_le_bytes(n) \o Concat(es) \o extra) :
             n \in 0..(MaxCount + 1),
             es \in SeqsUpTo(samples, MaxCount),
             extra \in {<<>>, <<5, 6>>}}

----------------------------------------------------------------------------
(* The decoders called on a buffer, as the unit tests call them *)

InitCall(inputs) ==
    /\ input \in inputs
    /\ version = 0
    /\ rest = input
    /\ pc = "call"
    /\ acc = NoFields
    /\ cinput = <<>>
    /\ entries = <<>>
    /\ efield = 0
    /\ eacc = NoFields
    /\ offs = <<>>
    /\ result = NoFields
    /\ raised = NoError

Call(name, r) ==
    /\ pc = "call"
    /\ name \notin DOMAIN result
    /\ result' = result @@ (name :> r)
    /\ UNCHANGED <<input, version, rest, pc, acc, cinput, entries, efield,
                   eacc, offs, raised>>

CallRankedStatus == Call("ranked_status", ranked_status(input))

CallGameplayMode == Call("gameplay_mode", gameplay_mode(input))

CallIntDoublePair == Call("int_double_pair", int_double_pair(input))

CallStarRatings == Call("star_ratings", star_ratings(input))

CallTimingPoints == Call("timing_points", timing_points(input))

InitEnum == InitCall(EnumInputs)

NextEnum == CallRankedStatus \/ CallGameplayMode

SpecEnum == InitEnum /\ [][NextEnum]_vars

InitPair == InitCall(PairInputs)

NextPair == CallIntDoublePair

SpecPair == InitPair /\ [][NextPair]_vars

InitList == InitCall(ListInputs(PairSamples) \cup ListInputs(TimingSamples))

NextList == CallStarRatings \/ CallTimingPoints

SpecList == InitList /\ [][NextList]_vars

Called(name) == name \in DOMAIN result

IsErr(r) == DOMAIN r = {"ok", "input", "code"} /\ ~r.ok

----------------------------------------------------------------------------
(* Claims about the enum decoders (SpecEnum) *)

RankedStatusCodes ==
    (0 :> "Unknown") @@ (1 :> "Unsubmitted") @@ (2 :> "Pending") @@
    (4 :> "Ranked") @@ (5 :> "Approved") @@ (6 :> "Qualified") @@
    (7 :> "Loved")

GameplayModeCodes ==
    (0 :> "Standard") @@ (1 :> "Taiko") @@ (2 :> "Catch") @@ (3 :> "Mania")

ClosedDecode(r, codes) ==
    /\ r.ok <=> (input # <<>> /\ input[1] \in DOMAIN codes)
    /\ r.ok => r = Ok(Tail(input), codes[input[1]])
    /\ ~r.ok => IsErr(r)

(* C1: ranked_status succeeds iff the first byte is in {0,1,2,4,5,6,7} and  *)
(* gameplay_mode iff it is in {0,1,2,3}; on success exactly one byte is     *)
(* consumed and the variant is the one the code table gives; on any other   *)
(* byte the decode fails and the result holds no variant.                   *)
C1_ClosedCodeSet ==
    /\ Called("ranked_status") =>
         ClosedDecode(result["ranked_status"], RankedStatusCodes)
    /\ Called("gameplay_mode") =>
         ClosedDecode(result["gameplay_mode"], GameplayModeCodes)

C1_Witness ==
    /\ Called("ranked_status") /\ Called("gameplay_mode")
    /\ input # <<>> /\ input[1] = 3 /\ Len(input) = 2
    /\ ~result["ranked_status"].ok
    /\ result["gameplay_mode"] = Ok(Tail(input), "Mania")

SwitchErrors ==
    {f \in DOMAIN result : ~result[f].ok /\ result[f].code = "Switch"}

----------------------------------------------------------------------------
(* Claims about int_double_pair (SpecPair) *)

PairFramed == Len(input) >= 14 /\ input[1] = 8 /\ input[6] = 13

(* C2: int_double_pair succeeds only on 0x08, u32, 0x0d, f64; it returns    *)
(* (integer, float) and leaves the bytes after those 14.  A first byte      *)
(* other than 0x08 fails with a Tag error at the start of the buffer; a     *)
(* valid first marker and integer followed by a byte other than 0x0d fails  *)
(* with a Tag error at offset 5.  A failure returns no pair.                *)
C2_PairFraming ==
    Called("int_double_pair") =>
      LET r == result["int_double_pair"] IN
      /\ r.ok <=> PairFramed
      /\ r.ok => r = Ok(Drop(input, 14),
                        <<input[2] + 256 * input[3] + 65536 * input[4]
                            + 16777216 * input[5],
                          <<input[14], input[13], input[12], input[11],
                            input[10], input[9], input[8], input[7]>> >>)
      /\ (input = <<>> \/ input[1] # 8) => r = Err(input, "Tag")
      /\ (Len(input) >= 5 /\ input[1] = 8
            /\ (Len(input) = 5 \/ input[6] # 13)) =>
           r = Err(Drop(input, 5), "Tag")
      /\ ~r.ok => IsErr(r)

C2_Witness ==
    /\ Called("int_double_pair")
    /\ input = <<8, 100, 0, 0, 0, 10, 215, 163, 112, 61, 74, 147, 64>>
    /\ result["int_double_pair"]
         = Err(<<10, 215, 163, 112, 61, 74, 147, 64>>, "Tag")

----------------------------------------------------------------------------
(* Claims about the count-prefixed lists (SpecList) *)

Declared == le_u32(input).value

Consumed(r) == Len(input) - Len(r.rest)

(* the result of the element decoder on the k-th element of `width` bytes *)
Element(f(_), width, k) == f(Drop(input, 4 + width * (k - 1)))

ExactlyDeclared(r, f(_), width) ==
    /\ r.ok =>
         /\ Len(r.value) = Declared
         /\ \A k \in 1..Declared : r.value[k] = Element(f, width, k).value
         /\ r.rest = Drop(input, 4 + width * Declared)
    /\ (~r.ok /\ Len(input) >= 4) =>
         \E k \in 1..Declared :
            /\ \A j \in 1..(k - 1) : Element(f, width, j).ok
            /\ r = Element(f, width, k)
    /\ ~r.ok => IsErr(r)

(* C3 as stated: star_ratings consumes 4 + 13*N bytes. *)
C3_ThirteenBytesPerPair ==
    (Called("star_ratings") /\ result["star_ratings"].ok) =>
       Consumed(result["star_ratings"]) = 4 + 13 * Declared

(* C3 amended: after the 4-byte count N the decoder decodes exactly N       *)
(* elements and returns them in stream order; the leftover starts right     *)
(* after the N-th element, so star_ratings consumes 4 + 14*N bytes (and the *)
(* timing-point list 4 + 17*N).  If the k-th element fails, the list fails  *)
(* with that element's error and no shorter list is returned.               *)
C3_ExactlyDeclaredInOrder ==
    /\ Called("star_ratings") =>
         /\ ExactlyDeclared(result["star_ratings"], int_double_pair, 14)
         /\ result["star_ratings"].ok =>
              Consumed(result["star_ratings"]) = 4 + 14 * Declared
    /\ Called("timing_points") =>
         /\ ExactlyDeclared(result["timing_points"], timing_point, 17)
         /\ result["timing_points"].ok =>
              Consumed(result["timing_points"]) = 4 + 17 * Declared

C3_Witness ==
    /\ Called("star_ratings") /\ Called("timing_points")
    /\ result["star_ratings"].ok
    /\ Declared = 2
    /\ result["star_ratings"].value[1][1] = 1
    /\ result["star_ratings"].value[2][1] = 0
    /\ result["star_ratings"].rest = <<5, 6>>
    /\ ~result["timing_points"].ok

----------------------------------------------------------------------------
(* Listing buffers: a header, then zero bytes, which decode as entries with *)
(* every string absent, every list empty and every number 0, cut short or   *)
(* with a few bytes inserted                                                *)

MaxEntries == 2

MaxBody == 150

Versions == {20140608, 20140609, 20191105, 20191106}

Zeros(n) == [k \in 1..n |-> 0]

Insert(b, at, patch) == Take(b, at) \o patch \o Drop(b, at)

Header(v, name, n) ==
    to_le_bytes(v) \o <<2, 0, 0, 0>> \o <<1>> \o <<0, 64, 0, 0, 0, 0, 0, 1>>
      \o name \o to_le_bytes(n)

(* the length of the all-zero entry of each version *)
ZeroEntryLen ==
    [v \in Versions |->
       CHOOSE n \in 0..MaxBody : LET r == beatmap_entry(v, Zeros(n))
                                 IN r.ok /\ r.rest = <<>>]

(* the offsets at which the fields of the all-zero entry begin *)
RECURSIVE FieldStarts(_, _, _, _)
FieldStarts(v, k, bound, at) ==
    IF k > Len(EntryFields) THEN {}
    ELSE LET f == EntryFields[k]
             r == FieldDecoder(f.p, v, bound, Zeros(MaxBody - at))
         IN {at} \cup FieldStarts(v, k + 1, bound @@ (f.name :> r.value),
                                  MaxBody - Len(r.rest))

(* a byte no enum accepts, a present string, a list of one pair, one with a *)
(* wrong marker, a list of one timing point                                 *)
Patches ==
    {<<3>>, <<11, 1, 97>>,
     <<1, 0, 0, 0, 8, 5, 0, 0, 0, 13, 102, 102, 102, 102, 102, 102, 2, 64>>,
     <<1, 0, 0, 0, 8, 5, 0, 0, 0, 8, 102, 102, 102, 102, 102, 102, 2, 64>>,
     <<1, 0, 0, 0, 0, 0, 0, 0, 0, 64, 111, 64, 0, 0, 0, 0, 0, 64, 111, 64, 1>>}

(* n declared entries over a body cut within the n-th entry or the trailer *)
CutLengths(v, n) ==
    {len \in 0..(n * ZeroEntryLen[v] + 4 + MaxExtra) :
       n > 0 => len > (n - 1) * ZeroEntryLen[v]}

CutInputs ==
    UNION {{Header(q[1], <<0>>, q[2]) \o Zeros(len) :
              len \in CutLengths(q[1], q[2])} :
           q \in Versions \X {0, 1, MaxEntries}}

(* one entry with one patch at the start of one field *)
PatchInputs ==
    UNION {{Header(v, <<0>>, 1)
              \o Insert(Zeros(ZeroEntryLen[v]), at, patch) \o <<7, 0, 0, 0, 9>> :
              at \in FieldStarts(v, 1, NoFields, 0), patch \in Patches} :
           v \in Versions}

(* entries that differ (bytes put in place of a zero byte), then the        *)
(* permissions and the leftover                                             *)
EntryVariants(v) ==
    {Insert(Zeros(ZeroEntryLen[v] - q[3]), q[1], q[2]) :
       q \in {<<0, <<>>, 0>>, <<4, <<11, 1, 97>>, 1>>, <<0, <<1>>, 1>>}}

ManyInputs ==
    UNION {{Header(v, name, Len(es)) \o Concat(es) \o <<7, 0, 0, 0>> \o extra :
              es \in SeqsUpTo(EntryVariants(v), MaxEntries),
              name \in {<<11, 2, 97, 98>>},
              extra \in {<<>>, <<9, 8>>}} :
           v \in Versions}

HeaderInputs == Prefixes(Header(20140609, <<11, 2, 97, 98>>, 1))

ListingInputs == CutInputs \cup PatchInputs \cup ManyInputs \cup HeaderInputs

----------------------------------------------------------------------------
(* beatmap_listing(input), one `let (rest, x) = ...(rest)?;` at a time *)

Init ==
    /\ input \in ListingInputs
    /\ version = 0
    /\ rest = input
    /\ pc = "version"
    /\ acc = NoFields
    /\ cinput = <<>>
    /\ entries = <<>>
    /\ efield = 0
    /\ eacc = NoFields
    /\ offs = <<>>
    /\ result = NoFields
    /\ raised = NoError

Offset == Len(input) - Len(rest)

(* `?`: Ok binds the value and moves the cursor, Err is returned as it is *)
Bind(name, r, next) ==
    IF r.ok
    THEN /\ acc' = acc @@ (name :> r.value)
         /\ rest' = r.rest
         /\ pc' = next
         /\ UNCHANGED <<result, raised>>
    ELSE /\ result' = ("beatmap_listing" :> r)
         /\ raised' = r
         /\ pc' = "done"
         /\ UNCHANGED <<acc, rest>>

ReadVersion ==
    /\ pc = "version"
    /\ LET r == le_u32(rest) IN
       /\ Bind("version", r, "folder_count")
       /\ version' = IF r.ok THEN r.value ELSE version
    /\ UNCHANGED <<input, cinput, entries, efield, eacc, offs>>

ReadFolderCount ==
    /\ pc = "folder_count"
    /\ Bind("folder_count", le_u32(rest), "account_unlocked")
    /\ UNCHANGED <<input, version, cinput, entries, efield, eacc, offs>>

ReadAccountUnlocked ==
    /\ pc = "account_unlocked"
    /\ Bind("account_unlocked", boolean(rest), "account_unlock_date")
    /\ UNCHANGED <<input, version, cinput, entries, efield, eacc, offs>>

ReadAccountUnlockDate ==
    /\ pc = "account_unlock_date"
    /\ Bind("account_unlock_date", windows_datetime(rest), "player_name")
    /\ UNCHANGED <<input, version, cinput, entries, efield, eacc, offs>>

ReadPlayerName ==
    /\ pc = "player_name"
    /\ Bind("player_name", osu_string(rest), "beatmap_count")
    /\ UNCHANGED <<input, version, cinput, entries, efield, eacc, offs>>

ReadBeatmapCount ==
    /\ pc = "beatmap_count"
    /\ LET r == le_u32(rest) IN
       /\ Bind("beatmap_count", r, "beatmaps")
       /\ cinput' = IF r.ok THEN r.rest ELSE cinput
    /\ UNCHANGED <<input, version, entries, efield, eacc, offs>>

(* count: the next of beatmap_count iterations calls beatmap_entry(version) *)
EntryBegin ==
    /\ pc = "beatmaps"
    /\ efield = 0
    /\ Len(entries) < acc["beatmap_count"]
    /\ efield' = 1
    /\ eacc' = NoFields
    /\ offs' = Append(offs, NoFields)
    /\ UNCHANGED <<input, version, rest, pc, acc, cinput, entries, result,
                   raised>>

(* beatmap_entry: the next field; an error leaves beatmap_entry by `?`,     *)
(* count by its Err::Error arm and beatmap_listing by `?`                   *)
EntryField ==
    /\ pc = "beatmaps"
    /\ efield \in 1..Len(EntryFields)
    /\ LET f == EntryFields[efield]
           r == FieldDecoder(f.p, version, eacc, rest)
       IN IF r.ok
          THEN /\ eacc' = eacc @@ (f.name :> r.value)
               /\ rest' = r.rest
               /\ offs' = [offs EXCEPT ![Len(offs)] =
                            @ @@ (f.name :> <<Offset, Len(input) - Len(r.rest)>>)]
               /\ efield' = efield + 1
               /\ UNCHANGED <<pc, result, raised>>
          ELSE /\ result' =
                    ("beatmap_listing" :> ErrorAppend(cinput, "Count", r))
               /\ raised' = r
               /\ pc' = "done"
               /\ UNCHANGED <<eacc, rest, offs, efield>>
    /\ UNCHANGED <<input, version, acc, cinput, entries>>

(* beatmap_entry returns Ok((rest, BeatmapEntry {..})) and count pushes it *)
EntryReturn ==
    /\ pc = "beatmaps"
    /\ efield = Len(EntryFields) + 1
    /\ entries' = VecPush(entries, BeatmapEntry(eacc))
    /\ efield' = 0
    /\ UNCHANGED <<input, version, rest, pc, acc, cinput, eacc, offs, result,
                   raised>>

(* count returns Ok((input, res)) *)
CountReturn ==
    /\ pc = "beatmaps"
    /\ efield = 0
    /\ Len(entries) >= acc["beatmap_count"]
    /\ acc' = acc @@ ("beatmaps" :> entries)
    /\ pc' = "user_permissions"
    /\ UNCHANGED <<input, version, rest, cinput, entries, efield, eacc, offs,
                   result, raised>>

ReadUserPermissions ==
    /\ pc = "user_permissions"
    /\ Bind("user_permissions", le_u32(rest), "return")
    /\ UNCHANGED <<input, version, cinput, entries, efield, eacc, offs>>

ListingFields ==
    {"version", "folder_count", "account_unlocked", "account_unlock_date",
     "player_name", "beatmaps", "user_permissions"}

(* BeatmapListing { .. }: the bound fields but beatmap_count *)
BeatmapListing(bound) == [n \in ListingFields |-> bound[n]]

(* Ok((rest, BeatmapListing {..})) *)
Return ==
    /\ pc = "return"
    /\ result' = ("beatmap_listing" :> Ok(rest, BeatmapListing(acc)))
    /\ pc' = "done"
    /\ UNCHANGED <<input, version, rest, acc, cinput, entries, efield, eacc,
                   offs, raised>>

Next ==
    \/ ReadVersion
    \/ ReadFolderCount
    \/ ReadAccountUnlocked
    \/ ReadAccountUnlockDate
    \/ ReadPlayerName
    \/ ReadBeatmapCount
    \/ EntryBegin
    \/ EntryField
    \/ EntryReturn
    \/ CountReturn
    \/ ReadUserPermissions
    \/ Return

Spec == Init /\ [][Next]_vars

----------------------------------------------------------------------------
(* Claims about beatmap_entry within a listing (Spec) *)

Done == pc = "done" /\ Called("beatmap_listing")

HeaderVersion == le_u32(input).value

Begun == 1..Len(offs)

Bound(j, n) == n \in DOMAIN offs[j]

Start(j, n) == offs[j][n][1]

End(j, n) == offs[j][n][2]

(* the value bound to field n of the j-th entry *)
Val(j, n) == IF j <= Len(entries) THEN entries[j][n] ELSE eacc[n]

(* field m is bound right after field n: no byte between them *)
Adjacent(j, n, m) == Bound(j, m) => (Bound(j, n) /\ End(j, n) = Start(j, m))

F32At(a) == <<input[a + 4], input[a + 3], input[a + 2], input[a + 1]>>

U32At(a) ==
    input[a + 1] + 256 * input[a + 2] + 65536 * input[a + 3]
      + 16777216 * input[a + 4]

(* field n is a presence-tagged string: a flag byte alone when absent, the  *)
(* flag, a length below 128 and that many bytes when present                *)
PresenceTagged(j, n) ==
    LET a == Start(j, n) IN
    IF input[a + 1] # StringMarker
    THEN Val(j, n) = None /\ End(j, n) = a + 1
    ELSE /\ input[a + 2] < 128
         /\ End(j, n) = a + 2 + input[a + 2]
         /\ Val(j, n) = Some(SubSeq(input, a + 3, End(j, n)))

DifficultyStats ==
    <<"approach_rate", "circle_size", "hp_drain", "overall_difficulty">>

(* C4: in every entry of a listing of header version v each of the four     *)
(* difficulty statistics is one byte converted to a float when              *)
(* v < 20140609 and a 4-byte little-endian float otherwise (4 or 16 bytes   *)
(* in all), whatever the bytes of the entry are.                            *)
C4_DifficultyWidthByVersion ==
    \A j \in Begun :
       /\ \A k \in 1..4 :
            LET n == DifficultyStats[k] IN
            Bound(j, n) =>
              IF HeaderVersion < 20140609
              THEN /\ End(j, n) = Start(j, n) + 1
                   /\ input[Start(j, n) + 1] = 0 => Val(j, n) = <<0, 0, 0, 0>>
                   /\ input[Start(j, n) + 1] = 3 => Val(j, n) = <<64, 64, 0, 0>>
                   /\ input[Start(j, n) + 1] = 11 => Val(j, n) = <<65, 48, 0, 0>>
              ELSE /\ End(j, n) = Start(j, n) + 4
                   /\ Val(j, n) = F32At(Start(j, n))
       /\ Adjacent(j, "last_modification_time", "approach_rate")
       /\ Adjacent(j, "approach_rate", "circle_size")
       /\ Adjacent(j, "circle_size", "hp_drain")
       /\ Adjacent(j, "hp_drain", "overall_difficulty")
       /\ Adjacent(j, "overall_difficulty", "slider_velocity")
       /\ Bound(j, "overall_difficulty") =>
            End(j, "overall_difficulty") - Start(j, "approach_rate")
              = IF HeaderVersion < 20140609 THEN 4 ELSE 16

C4_Witness ==
    /\ Len(offs) = 1
    /\ Bound(1, "slider_velocity")
    /\ HeaderVersion = 20140608
    /\ Val(1, "approach_rate") = <<64, 64, 0, 0>>
    /\ Val(1, "circle_size") = <<0, 0, 0, 0>>
    /\ End(1, "overall_difficulty") = Start(1, "approach_rate") + 4

(* where the j-th entry begins: after the entry count, or after entry j-1 *)
EntryStart(j) ==
    IF j = 1 THEN Len(input) - Len(cinput)
    ELSE End(j - 1, "mania_scroll_speed")

(* C5: in every entry of a listing of header version v a 4-byte size is     *)
(* the first field iff v < 20191106 (size = Some(value)); from 20191106 on  *)
(* no byte is consumed for it, size is None and the first string starts at  *)
(* the first byte of the entry.                                             *)
C5_SizeFieldByVersion ==
    \A j \in Begun :
       /\ Bound(j, "size") =>
            /\ Start(j, "size") = EntryStart(j)
            /\ IF HeaderVersion < 20191106
               THEN /\ End(j, "size") = Start(j, "size") + 4
                    /\ Val(j, "size") = Some(U32At(Start(j, "size")))
               ELSE /\ End(j, "size") = Start(j, "size")
                    /\ Val(j, "size") = None
       /\ Adjacent(j, "size", "artist_name")
       /\ Bound(j, "artist_name") =>
            /\ Start(j, "artist_name")
                 = EntryStart(j) + IF HeaderVersion < 20191106 THEN 4 ELSE 0
            /\ PresenceTagged(j, "artist_name")

C5_Witness ==
    /\ Len(offs) = 2
    /\ HeaderVersion = 20191106
    /\ Bound(2, "artist_name")
    /\ Val(2, "size") = None
    /\ Val(2, "artist_name") = None
    /\ Val(1, "creator_name") = Some(<<97>>)

TailFields ==
    <<"last_checked_online", "ignore_beatmap_hitsounds", "ignore_beatmap_skin",
      "disable_storyboard", "disable_video", "_unused_f32", "_unused_u32",
      "mania_scroll_speed">>

Complete(j) == Bound(j, "mania_scroll_speed")

TailBytes(j) == End(j, "mania_scroll_speed") - End(j, "last_checked_online")

(* C8 as stated: three booleans follow the last-checked-online timestamp,   *)
(* so the entry consumes 12 bytes after it when version < 20140609 and 8    *)
(* otherwise.                                                               *)
C8_ThreeBooleansInTail ==
    \A j \in Begun :
       Complete(j) =>
         TailBytes(j) = IF HeaderVersion < 20140609 THEN 12 ELSE 8

(* C8 amended: after the last-checked-online timestamp the entry decoder    *)
(* reads exactly four one-byte booleans, then a 4-byte float present iff    *)
(* version < 20140609, then one unconditional 4-byte field, then the final  *)
(* byte (mania scroll speed), and the entry ends there: 4 + 4 + 4 + 1 = 13  *)
(* bytes after that timestamp when version < 20140609, 4 + 4 + 1 = 9        *)
(* otherwise.                                                               *)
C8_FourBooleansInTail ==
    \A j \in Begun :
       /\ \A k \in 1..7 : Adjacent(j, TailFields[k], TailFields[k + 1])
       /\ \A k \in 2..5 :
            Bound(j, TailFields[k]) =>
              /\ End(j, TailFields[k]) = Start(j, TailFields[k]) + 1
              /\ Val(j, TailFields[k]) = (input[End(j, TailFields[k])] # 0)
       /\ Bound(j, "_unused_f32") =>
            End(j, "_unused_f32") - Start(j, "_unused_f32")
              = IF HeaderVersion < 20140609 THEN 4 ELSE 0
       /\ Bound(j, "_unused_u32") =>
            End(j, "_unused_u32") = Start(j, "_unused_u32") + 4
       /\ Complete(j) =>
            /\ Val(j, "mania_scroll_speed") = input[End(j, "mania_scroll_speed")]
            /\ End(j, "mania_scroll_speed")
                 = Start(j, "mania_scroll_speed") + 1
            /\ TailBytes(j) = IF HeaderVersion < 20140609 THEN 13 ELSE 9
            /\ (j < Len(offs) /\ Bound(j + 1, "size")) =>
                 Start(j + 1, "size") = End(j, "mania_scroll_speed")
            /\ (j = Len(offs) /\ pc = "user_permissions") =>
                 Offset = End(j, "mania_scroll_speed")

C8_Witness ==
    /\ Len(offs) = 2
    /\ Complete(1) /\ Complete(2)
    /\ HeaderVersion = 20140608
    /\ TailBytes(2) = 13
    /\ pc = "user_permissions"

Strings ==
    <<"artist_name", "artist_name_unicode", "song_title", "song_title_unicode",
      "creator_name", "difficulty", "audio_filename", "md5",
      "beatmap_filename">>

AllAbsent(j) == \A k \in 1..Len(Strings) : Val(j, Strings[k]) = None

(* C9 as stated: eight presence-tagged strings follow the optional size     *)
(* field, so with every string absent the ranked-status byte is at offset 8 *)
(* after the size field.                                                    *)
C9_EightStringsInHead ==
    \A j \in Begun :
       (Bound(j, "ranked_status") /\ AllAbsent(j)) =>
          Start(j, "ranked_status") = End(j, "size") + 8

(* C9 amended: after the optional size field the entry decoder reads        *)
(* exactly nine presence-tagged strings (artist, artist unicode, title,     *)
(* title unicode, creator, difficulty, audio file, hash, map file) and the  *)
(* next byte it reads is the ranked-status discriminant; with every string  *)
(* absent that byte is at offset 9 after the optional size field.           *)
C9_NineStringsInHead ==
    \A j \in Begun :
       /\ Adjacent(j, "size", Strings[1])
       /\ \A k \in 1..8 : Adjacent(j, Strings[k], Strings[k + 1])
       /\ Adjacent(j, Strings[9], "ranked_status")
       /\ \A k \in 1..9 : Bound(j, Strings[k]) => PresenceTagged(j, Strings[k])
       /\ Bound(j, "ranked_status") =>
            /\ End(j, "ranked_status") = Start(j, "ranked_status") + 1
            /\ Val(j, "ranked_status")
                 = RankedStatusCodes[input[Start(j, "ranked_status") + 1]]
            /\ AllAbsent(j) =>
                 Start(j, "ranked_status") = End(j, "size") + 9

C9_Witness ==
    /\ Len(offs) = 1
    /\ HeaderVersion = 20191105
    /\ Bound(1, "ranked_status")
    /\ AllAbsent(1)
    /\ Start(1, "ranked_status") = Start(1, "size") + 13

----------------------------------------------------------------------------
(* Claims about beatmap_listing (Spec) *)

(* where the entries end: after the last entry, or after the entry count *)
EntriesEnd ==
    IF offs = <<>> THEN Len(input) - Len(cinput)
    ELSE End(Len(offs), "mania_scroll_speed")

(* C10: beatmap_listing decodes version, folder count, account-unlocked     *)
(* flag, unlock timestamp, player name, a 4-byte entry count N, exactly N   *)
(* entries, each with the version of the header, and the 4-byte permissions *)
(* right after the N-th entry; it returns the Listing with the N entries    *)
(* in on-disk order and every byte after the permissions as leftover, empty *)
(* or not.                                                                  *)
C10_ListingOrderAndLeftover ==
    (Done /\ result["beatmap_listing"].ok) =>
       LET r == result["beatmap_listing"]
           L == r.value
           name == osu_string(Drop(input, 17))
           n == le_u32(name.rest)
       IN /\ DOMAIN L = ListingFields
          /\ L["version"] = U32At(0)
          /\ L["folder_count"] = U32At(4)
          /\ L["account_unlocked"] = (input[9] # 0)
          /\ L["account_unlock_date"]
               = [ticks |-> <<input[17], input[16], input[15], input[14],
                              input[13], input[12], input[11], input[10]>>]
          /\ L["player_name"] = name.value
          /\ cinput = n.rest
          /\ Len(L["beatmaps"]) = n.value
          /\ Len(offs) = n.value
          /\ \A j \in 1..n.value :
               LET e == beatmap_entry(L["version"], Drop(input, EntryStart(j)))
               IN /\ e.ok
                  /\ L["beatmaps"][j] = e.value
                  /\ End(j, "mania_scroll_speed") = Len(input) - Len(e.rest)
          /\ L["user_permissions"] = U32At(EntriesEnd)
          /\ r.rest = Drop(input, EntriesEnd + 4)

C10_Witness ==
    /\ Done
    /\ result["beatmap_listing"].ok
    /\ result["beatmap_listing"].rest = <<9, 8>>
    /\ result["beatmap_listing"].value["user_permissions"] = 7
    /\ Len(result["beatmap_listing"].value["beatmaps"]) = 2
    /\ result["beatmap_listing"].value["version"] = 20140609
    /\ result["beatmap_listing"].value["beatmaps"][1]["artist_name"]
         = Some(<<97>>)
    /\ result["beatmap_listing"].value["beatmaps"][2]["artist_name"] = None

IsSuffix(t) == Len(t) <= Len(input) /\ t = Drop(input, Len(input) - Len(t))

(* C6: when a field decode fails at any depth, beatmap_listing returns that *)
(* first error as the failing decoder produced it (same kind, same          *)
(* position) and neither a Listing nor an Entry; the entries decoded before *)
(* are dropped and nothing after the failing field is decoded.              *)
C6_FirstErrorUnmodified ==
    /\ raised # NoError => Done
    /\ (Done /\ ~result["beatmap_listing"].ok) =>
         LET r == result["beatmap_listing"] IN
         /\ IsErr(r)
         /\ r = raised
         /\ r.code \in {"Eof", "Tag", "Switch"}
         /\ IsSuffix(r.input)
         /\ Len(r.input) <= Len(rest)
         /\ r.code = "Switch" => r.input # <<>> /\ r.input[1] \notin {0, 1, 2}
         /\ "user_permissions" \notin DOMAIN acc
         /\ efield # 0 => "beatmaps" \notin DOMAIN acc
    /\ (Done /\ result["beatmap_listing"].ok) => raised = NoError

C6_Witness ==
    /\ Done
    /\ ~result["beatmap_listing"].ok
    /\ Len(entries) = 1
    /\ efield > 20
    /\ result["beatmap_listing"].code = "Eof"

====
